---------------------------- MODULE Spec2Model ----------------------------
(***************************************************************************)
(* Model of update_index.py: parse_csv, the row classifier/extractor that  *)
(* turns the rows of new_data.csv into categories, final scores and TCO    *)
(* values.                                                                 *)
(*                                                                         *)
(* A Python str whose text the program inspects (strip, replace, `in`,     *)
(* re.match, float) is a sequence of one-character strings.  A character   *)
(* outside ASCII is written as the token "uXXXX" of its code point.        *)
(* A str used only as a dictionary key (provider names, category ids) is   *)
(* a plain string.  Python indices are 0-based: Cell(row, k) is row[k].    *)
(***************************************************************************)
EXTENDS Integers, Sequences, FiniteSets, TLC

(***************************************************************************)
(* String literals of the program.                                         *)
(***************************************************************************)
S_MSCW == <<"M", "S", "C", "W">>
S_WeightPct == <<"W", "e", "i", "g", "h", "t", " ", "%">>
S_Description == <<"D", "e", "s", "c", "r", "i", "p", "t", "i", "o", "n">>
S_100pct == <<"1", "0", "0", "%">>
S_Marker ==
    <<"u0417", "u0430", "u0433", "u0430", "u043B", "u044C", "u043D", "u0430",
      " ", "u043E", "u0446", "u0456", "u043D", "u043A", "u0430">>
S_Must == <<"M", "u", "s", "t">>
S_Should == <<"S", "h", "o", "u", "l", "d">>
S_Could == <<"C", "o", "u", "l", "d">>
S_Ellipsis == <<".", ".", ".">>
S_Zero == <<"0">>
S_ZeroPct == <<"0", "%">>
S_NotAvailable == <<"N", "/", "A">>
K_COPILOT == <<"C", "O", "P", "I", "L", "O", "T">>
K_ACW ==
    <<"u041F", "u041E", "u0421", "u0422", "u041E", "u0411", "u0420", "u041E",
      "u0411", "u041A", "u0410", " ", "(", "A", "C", "W", ")">>
K_ANALYTICS ==
    <<"u0410", "u041D", "u0410", "u041B", "u0406", "u0422", "u0418", "u041A",
      "u0410", " ", "u0422", "u0410", " ", "Q", "A">>
K_PRECALL ==
    <<"P", "R", "E", "-", "C", "A", "L", "L", " ", "A", "I", ",", " ",
      "u044F", "u043A", " ", "u043F", "u043E", "u0432", "u043D", "u043E",
      "u0446", "u0456", "u043D", "u043D", "u0438", "u0439", " ", "I", "V",
      "R", "-", "u0437", "u0430", "u043C", "u0456", "u043D", "u043D",
      "u0438", "u043A">>
K_IT ==
    <<"I", "T", ",", " ", "E", "N", "T", "E", "R", "P", "R", "I", "S", "E",
      " ", "&", " ", "S", "E", "C", "U", "R", "I", "T", "Y">>
K_BUSINESS ==
    <<"u0411", "u0406", "u0417", "u041D", "u0415", "u0421", " ", "u0422",
      "u0410", " ", "u0412", "u041F", "u0420", "u041E", "u0412", "u0410",
      "u0414", "u0416", "u0415", "u041D", "u041D", "u042F">>
N_Copilot == <<"C", "o", "p", "i", "l", "o", "t">>
N_Acw ==
    <<"u041F", "u043E", "u0441", "u0442", "u043E", "u0431", "u0440", "u043E",
      "u0431", "u043A", "u0430">>
N_Analytics ==
    <<"u0410", "u043D", "u0430", "u043B", "u0456", "u0442", "u0438", "u043A",
      "u0430", " ", "&", " ", "Q", "A">>
N_Precall == <<"P", "r", "e", "C", "a", "l", "l", " ", "A", "I">>
N_It == <<"I", "T", " ", "&", " ", "S", "e", "c", "u", "r", "i", "t", "y">>
N_Business == <<"u0411", "u0456", "u0437", "u043D", "u0435", "u0441">>

(***************************************************************************)
(* Bounds of the model.                                                    *)
(***************************************************************************)
\* rows of the input file, header row included
MaxRows == 4
\* rows in front of the header row
MaxSkip == 1

\* the rows of the file main reads are at most MaxFileLen
MaxFileLen == 3

(***************************************************************************)
(* Reference data.                                                         *)
(***************************************************************************)
PROVIDERS ==
    <<"Google Cloud CCAI", "Ender Turing", "NICE", "Microsoft Copilot",
      "Genesys Cloud CX", "NICE Cognigy", "Live Person", "Ringo stat",
      "Deca gon", "Eleven Labs", "Poly AI", "Get Vocal">>

\* a dict is the sequence of its <<key, value>> items in insertion order
CATEGORY_MAP ==
    << <<K_COPILOT,   <<"copilot",   N_Copilot,   15>> >>,
       <<K_ACW,       <<"acw",       N_Acw,       25>> >>,
       <<K_ANALYTICS, <<"analytics", N_Analytics, 15>> >>,
       <<K_PRECALL,   <<"precall",   N_Precall,    5>> >>,
       <<K_IT,        <<"it",        N_It,        30>> >>,
       <<K_BUSINESS,  <<"business",  N_Business,  10>> >> >>

\* None, for an index (header_row_idx) and for an object reference
NoIdx == -1
NoRef == 0

(***************************************************************************)
(* dict operations                                                         *)
(***************************************************************************)
DictHas(d, k) == \E n \in 1..Len(d) : d[n][1] = k

DictGet(d, k) == d[CHOOSE n \in 1..Len(d) : d[n][1] = k][2]

\* d[k] = v: a new key goes last, an existing key keeps its position
DictSet(d, k, v) ==
    IF DictHas(d, k)
    THEN [n \in 1..Len(d) |-> IF d[n][1] = k THEN <<k, v>> ELSE d[n]]
    ELSE Append(d, <<k, v>>)

(***************************************************************************)
(* str operations                                                          *)
(***************************************************************************)
Whitespace == {" ", "\t", "\n", "\r"}

Digits == <<"0", "1", "2", "3", "4", "5", "6", "7", "8", "9">>

IsSpace(c) == c \in Whitespace

IsDigit(c) == c \in {Digits[k] : k \in 1..10}

DigitVal(c) == (CHOOSE k \in 1..10 : Digits[k] = c) - 1

SetMin(S) == CHOOSE x \in S : \A y \in S : x <= y

\* row[k]
Cell(row, k) == row[k + 1]

\* the end of the longest run of digits (of white space) of s from k on
RECURSIVE SkipDigits(_, _)
SkipDigits(s, k) ==
    IF k <= Len(s) /\ IsDigit(s[k]) THEN SkipDigits(s, k + 1) ELSE k

RECURSIVE SkipSpace(_, _)
SkipSpace(s, k) ==
    IF k <= Len(s) /\ IsSpace(s[k]) THEN SkipSpace(s, k + 1) ELSE k

\* the start of the longest run of white space of s that ends at k
RECURSIVE SkipSpaceBack(_, _)
SkipSpaceBack(s, k) ==
    IF k >= 1 /\ IsSpace(s[k]) THEN SkipSpaceBack(s, k - 1) ELSE k

\* s.strip()
strip(s) ==
    IF SkipSpace(s, 1) > Len(s) THEN <<>>
    ELSE SubSeq(s, SkipSpace(s, 1), SkipSpaceBack(s, Len(s)))

\* s.replace(a, b) for one-character a
replace(s, a, b) ==
    LET pos == {k \in 1..Len(s) : s[k] = a}
        RECURSIVE Build(_)
        Build(k) == IF k > Len(s) THEN <<>>
                    ELSE (IF s[k] = a THEN b ELSE <<s[k]>>) \o Build(k + 1)
    IN  IF pos = {} THEN s ELSE Build(1)

\* sub in s
Contains(s, sub) ==
    \E k \in 0..(Len(s) - Len(sub)) : SubSeq(s, k + 1, k + Len(sub)) = sub

\* re.match(r'^\d+\s*-\s*\d+\s*000$', s): digits, dash, digits and a final
\* "000", with optional white space around the dash and before the "000".
\* Each \d+ and \s* is followed by a character outside its class, so the
\* match takes the longest runs, except that the second \d+ leaves the
\* final "000" when no white space separates them.
MatchesTcoFrom(s, n, d, b, c) ==
    /\ d <= n - 3
    /\ s[d] = "-"
    /\ c > b
    /\ SkipSpace(SubSeq(s, 1, n - 3), c) = n - 2

MatchesTcoDash(s, n, d, b) ==
    MatchesTcoFrom(s, n, d, b, SkipDigits(SubSeq(s, 1, n - 3), b))

MatchesTcoDigits(s, n, a) ==
    /\ a > 1
    /\ MatchesTcoDash(s, n, SkipSpace(s, a), SkipSpace(s, SkipSpace(s, a) + 1))

MatchesTcoUpTo(s, n) ==
    /\ n >= 3
    /\ SubSeq(s, n - 2, n) = <<"0", "0", "0">>
    /\ MatchesTcoDigits(s, n, SkipDigits(s, 1))

\* $ also matches in front of one final newline
re_match_tco(s) ==
    \/ MatchesTcoUpTo(s, Len(s))
    \/ Len(s) > 0 /\ s[Len(s)] = "\n" /\ MatchesTcoUpTo(s, Len(s) - 1)

\* truncate_text(text, max_len)
truncate_text(text, max_len) ==
    IF Len(text) > max_len THEN SubSeq(text, 1, max_len) \o S_Ellipsis
    ELSE text

(***************************************************************************)
(* float(s).  A float is [kind, neg, m, e]: kind "num" is the number       *)
(* (+/-) m / 10^e in lowest form (m not a multiple of 10, or m = e = 0),   *)
(* so equal numbers are equal records; kind "inf" and "nan" are the        *)
(* special values.  The cells of the model stay within the range and the   *)
(* precision of a double.                                                  *)
(***************************************************************************)
UpperCase ==
    <<"A", "B", "C", "D", "E", "F", "G", "H", "I", "J", "K", "L", "M",
      "N", "O", "P", "Q", "R", "S", "T", "U", "V", "W", "X", "Y", "Z">>

LowerCase ==
    <<"a", "b", "c", "d", "e", "f", "g", "h", "i", "j", "k", "l", "m",
      "n", "o", "p", "q", "r", "s", "t", "u", "v", "w", "x", "y", "z">>

lower(s) ==
    [k \in 1..Len(s) |->
        IF \E n \in 1..26 : UpperCase[n] = s[k]
        THEN LowerCase[CHOOSE n \in 1..26 : UpperCase[n] = s[k]]
        ELSE s[k]]

RECURSIVE ToNat(_)
ToNat(ds) ==
    IF ds = <<>> THEN 0
    ELSE ToNat(SubSeq(ds, 1, Len(ds) - 1)) * 10 + DigitVal(ds[Len(ds)])

\* digitpart ::= digit (["_"] digit)*
IsDigitPart(s) ==
    /\ s # <<>>
    /\ \A k \in 1..Len(s) :
          \/ IsDigit(s[k])
          \/ /\ s[k] = "_"
             /\ k > 1
             /\ k < Len(s)
             /\ IsDigit(s[k - 1])
             /\ IsDigit(s[k + 1])

DigitsOf(s) == SelectSeq(s, IsDigit)

FirstPos(s, c) ==
    IF \E k \in 1..Len(s) : s[k] = c
    THEN SetMin({k \in 1..Len(s) : s[k] = c})
    ELSE 0

\* number ::= [digitpart] "." digitpart | digitpart ["."]
IsNumberAt(s, p) ==
    IF p = 0 THEN IsDigitPart(s)
    ELSE \/ /\ IsDigitPart(SubSeq(s, p + 1, Len(s)))
            /\ (p = 1 \/ IsDigitPart(SubSeq(s, 1, p - 1)))
         \/ IsDigitPart(SubSeq(s, 1, p - 1)) /\ p = Len(s)

IsNumber(s) == IsNumberAt(s, FirstPos(s, "."))

\* exponent ::= ("e" | "E") [sign] digitpart, without the letter
IsExponent(s) ==
    /\ s # <<>>
    /\ IsDigitPart(IF s[1] \in {"+", "-"} THEN Tail(s) ELSE s)

ExponentVal(s) ==
    IF s = <<>> THEN 0
    ELSE IF s[1] = "-" THEN 0 - ToNat(DigitsOf(s))
    ELSE ToNat(DigitsOf(s))

RECURSIVE Normal(_, _, _)
Normal(neg, m, e) ==
    IF m = 0 THEN [kind |-> "num", neg |-> FALSE, m |-> 0, e |-> 0]
    ELSE IF m % 10 = 0 THEN Normal(neg, m \div 10, e - 1)
    ELSE [kind |-> "num", neg |-> neg, m |-> m, e |-> e]

Zero == Normal(FALSE, 0, 0)

NaN == [kind |-> "nan", neg |-> FALSE, m |-> 0, e |-> 0]

Inf(neg) == [kind |-> "inf", neg |-> neg, m |-> 0, e |-> 0]

\* the value of the digits ds with nfrac of them behind the point, times
\* ten to the expo
DecimalVal(neg, ds, nfrac, expo) == Normal(neg, ToNat(ds), nfrac - expo)

\* floatnumber ::= number [exponent], mant and expo its two parts
FloatNumber(neg, mant, has_expo, expo) ==
    IF IsNumber(mant) /\ (~has_expo \/ IsExponent(expo))
    THEN [exc |-> "",
          val |-> DecimalVal(neg, DigitsOf(mant),
                             IF FirstPos(mant, ".") = 0 THEN 0
                             ELSE Len(DigitsOf(SubSeq(mant,
                                          FirstPos(mant, ".") + 1,
                                          Len(mant)))),
                             ExponentVal(expo))]
    ELSE [exc |-> "ValueError", val |-> Zero]

FloatSplit(neg, u, pe) ==
    IF pe = 0 THEN FloatNumber(neg, u, FALSE, <<>>)
    ELSE FloatNumber(neg, SubSeq(u, 1, pe - 1), TRUE,
                     SubSeq(u, pe + 1, Len(u)))

\* absfloatvalue ::= floatnumber | infinity | nan, in lower case
FloatAbs(neg, u) ==
    IF u = <<"n", "a", "n">>
    THEN [exc |-> "", val |-> NaN]
    ELSE IF u \in {<<"i", "n", "f">>,
                   <<"i", "n", "f", "i", "n", "i", "t", "y">>}
    THEN [exc |-> "", val |-> Inf(neg)]
    ELSE FloatSplit(neg, u, FirstPos(u, "e"))

\* floatvalue ::= [sign] absfloatvalue
FloatSigned(t) ==
    IF t # <<>> /\ t[1] \in {"+", "-"}
    THEN FloatAbs(t[1] = "-", lower(Tail(t)))
    ELSE FloatAbs(FALSE, lower(t))

\* float(s): [exc |-> "" and the value, or exc |-> "ValueError"]
float(s) == FloatSigned(strip(s))

(***************************************************************************)
(* The dataclasses.  Objects live in `heap`; a reference is an index into  *)
(* it, so that current_category and categories[cat_id] can name the same   *)
(* Category object.  src_row and opened_at record the index of the row     *)
(* that created the object: they stand for the object's identity and are   *)
(* never read by the program.                                              *)
(***************************************************************************)
Criterion(priority, weight, name, description, src_row) ==
    [priority |-> priority, weight |-> weight, name |-> name,
     description |-> description, scores |-> <<>>, src_row |-> src_row]

Category(name, weight_percent, opened_at) ==
    [name |-> name, weight_percent |-> weight_percent, criteria |-> <<>>,
     subtotals |-> <<>>, opened_at |-> opened_at]

(***************************************************************************)
(* parse_csv: the header search                                            *)
(***************************************************************************)
\* a slip: the sentinels looked for in the first two columns
IsHeaderRow_FirstTwo(row) ==
    /\ Len(row) > 3
    /\ Cell(row, 0) = S_MSCW
    /\ Cell(row, 1) = S_WeightPct

IsHeaderRow(row) ==
    /\ Len(row) > 3
    /\ Cell(row, 0) = S_MSCW
    /\ Cell(row, 2) = S_WeightPct

(***************************************************************************)
(* parse_csv: the body of the loop over the rows after the header.  st is  *)
(* the state of the function's locals, st.exc the exception in flight.     *)
(***************************************************************************)
\* a slip: current_category bound by the first header only
OpenCategory_StaleCurrent(st, mscw, idx) ==
    LET entry == DictGet(CATEGORY_MAP, mscw)
        ref   == Len(st.heap) + 1
    IN  [st EXCEPT !.heap = Append(@, Category(entry[2], entry[3], idx)),
                   !.current_category = IF @ = NoRef THEN ref ELSE @,
                   !.categories = DictSet(@, entry[1], ref)]

\* a slip: a category that exists is taken up again, not replaced
OpenCategory_Reuse(st, mscw, idx) ==
    LET entry == DictGet(CATEGORY_MAP, mscw)
        ref   == Len(st.heap) + 1
    IN  IF DictHas(st.categories, entry[1])
        THEN [st EXCEPT !.current_category = DictGet(st.categories, entry[1])]
        ELSE [st EXCEPT !.heap = Append(@, Category(entry[2], entry[3], idx)),
                        !.current_category = ref,
                        !.categories = DictSet(@, entry[1], ref)]

\* a slip: the category named by the label cell of the row
OpenCategory_LabelAsName(st, mscw, idx) ==
    LET entry == DictGet(CATEGORY_MAP, mscw)
        ref   == Len(st.heap) + 1
    IN  [st EXCEPT !.heap = Append(@, Category(mscw, entry[3], idx)),
                   !.current_category = ref,
                   !.categories = DictSet(@, entry[1], ref)]

\* a slip: the new Category made current and not stored
OpenCategory_Unstored(st, mscw, idx) ==
    LET entry == DictGet(CATEGORY_MAP, mscw)
        ref   == Len(st.heap) + 1
    IN  [st EXCEPT !.heap = Append(@, Category(entry[2], entry[3], idx)),
                   !.current_category = ref]

\* mscw in CATEGORY_MAP: a new Category becomes current and is stored
OpenCategory(st, mscw, idx) ==
    LET entry == DictGet(CATEGORY_MAP, mscw)
        ref   == Len(st.heap) + 1
    IN  [st EXCEPT !.heap = Append(@, Category(entry[2], entry[3], idx)),
                   !.current_category = ref,
                   !.categories = DictSet(@, entry[1], ref)]

IsFinalScoreRow(weight_str, description) ==
    weight_str = S_100pct /\ Contains(description, S_Marker)

\* a slip: the cell stored as it stands
StoreFinal_Untrimmed(final, provider, cell) == DictSet(final, provider, cell)

\* final_scores[provider] = row[j + 4].strip()
StoreFinal(final, provider, cell) == DictSet(final, provider, strip(cell))

\* a slip: the values looked for from column 3, as in the three-column layout
RECURSIVE FinalScoreLoop_Offset3(_, _, _)
FinalScoreLoop_Offset3(final, row, j) ==
    IF j >= Len(PROVIDERS) THEN final
    ELSE FinalScoreLoop_Offset3(IF Len(row) > j + 3
                                THEN StoreFinal(final, PROVIDERS[j + 1],
                                                Cell(row, j + 3))
                                ELSE final,
                                row, j + 1)

RECURSIVE FinalScoreLoop(_, _, _)
FinalScoreLoop(final, row, j) ==
    IF j >= Len(PROVIDERS) THEN final
    ELSE FinalScoreLoop(IF Len(row) > j + 4
                        THEN StoreFinal(final, PROVIDERS[j + 1],
                                        Cell(row, j + 4))
                        ELSE final,
                        row, j + 1)

IsTcoCell(cell_str) == cell_str # <<>> /\ re_match_tco(cell_str)

\* a slip: the cells behind the last provider column looked at too
has_tco_AllCells(row) ==
    \E k \in 4..(Len(row) - 1) : IsTcoCell(strip(Cell(row, k)))

has_tco(row) ==
    \E k \in 4..15 :
        /\ k < Len(row)
        /\ IsTcoCell(strip(Cell(row, k)))

\* a slip: every cell of a cost-range row stored
StoreTco_Always(tco, provider, val) == DictSet(tco, provider, val)

\* if val and re.match(...): tco_values[provider] = val
StoreTco(tco, provider, val) ==
    IF val # <<>> /\ re_match_tco(val) THEN DictSet(tco, provider, val)
    ELSE tco

RECURSIVE TcoLoop(_, _, _)
TcoLoop(tco, row, j) ==
    IF j >= Len(PROVIDERS) THEN tco
    ELSE TcoLoop(IF Len(row) > j + 4
                 THEN StoreTco(tco, PROVIDERS[j + 1], strip(Cell(row, j + 4)))
                 ELSE tco,
                 row, j + 1)

\* a slip: the test of the priority cell left out
IsSubtotalRow_IgnoreLabel(weight_str, mscw) ==
    weight_str # <<>> /\ Contains(weight_str, <<"%">>)

IsSubtotalRow(weight_str, mscw) ==
    weight_str # <<>> /\ Contains(weight_str, <<"%">>) /\ mscw = <<>>

\* a slip: the values looked for from column 3, as in the three-column layout
RECURSIVE SubtotalLoop_Offset3(_, _, _)
SubtotalLoop_Offset3(subtotals, row, j) ==
    IF j >= Len(PROVIDERS) THEN subtotals
    ELSE SubtotalLoop_Offset3(IF Len(row) > j + 3
                              THEN DictSet(subtotals, PROVIDERS[j + 1],
                                           strip(Cell(row, j + 3)))
                              ELSE subtotals,
                              row, j + 1)

RECURSIVE SubtotalLoop(_, _, _)
SubtotalLoop(subtotals, row, j) ==
    IF j >= Len(PROVIDERS) THEN subtotals
    ELSE SubtotalLoop(IF Len(row) > j + 4
                      THEN DictSet(subtotals, PROVIDERS[j + 1],
                                   strip(Cell(row, j + 4)))
                      ELSE subtotals,
                      row, j + 1)

\* a slip: any labelled row taken for a criterion
IsCriterionRow_AnyLabel(mscw, current_category) ==
    mscw # <<>> /\ current_category # NoRef

IsCriterionRow(mscw, current_category) ==
    mscw \in {S_Must, S_Should, S_Could} /\ current_category # NoRef

\* a slip: no handler, the ValueError leaves parse_csv
ExceptValueError_Reraise(r) == r

\* except ValueError: the value becomes 0
ExceptValueError(r) ==
    IF r.exc = "ValueError" THEN [exc |-> "", val |-> Zero] ELSE r

\* a slip: the comma of the weight cell left as it is
ParseWeight_NoComma(weight_str) ==
    IF weight_str = <<>> THEN [exc |-> "", val |-> Zero]
    ELSE ExceptValueError(float(weight_str))

\* try: weight = float(...) if weight_str else 0; except ValueError: 0
ParseWeight(weight_str) ==
    IF weight_str = <<>> THEN [exc |-> "", val |-> Zero]
    ELSE ExceptValueError(float(replace(weight_str, ",", <<".">>)))

\* a slip: the score parsed outside any try
ParseScore_Unhandled(score_str) == float(replace(score_str, ",", <<".">>))

\* try: score = float(...); except (ValueError, AttributeError): 0
ParseScore(score_str) ==
    ExceptValueError(float(replace(score_str, ",", <<".">>)))

\* criterion.scores[provider] = score, or the exception goes on
StoreScore(acc, provider, r) ==
    IF r.exc = "" THEN [acc EXCEPT !.scores = DictSet(@, provider, r.val)]
    ELSE [acc EXCEPT !.exc = r.exc]

\* a slip: the scores looked for from column 3, as in the three-column layout
RECURSIVE ScoreLoop_Offset3(_, _, _)
ScoreLoop_Offset3(acc, row, j) ==
    IF j >= Len(PROVIDERS) \/ acc.exc # "" THEN acc
    ELSE IF Len(row) > j + 3
    THEN ScoreLoop_Offset3(StoreScore(acc, PROVIDERS[j + 1],
                                      ParseScore(strip(Cell(row, j + 3)))),
                           row, j + 1)
    ELSE ScoreLoop_Offset3(acc, row, j + 1)

\* a slip: a provider whose cell the row lacks is given the score 0
RECURSIVE ScoreLoop_ZeroFill(_, _, _)
ScoreLoop_ZeroFill(acc, row, j) ==
    IF j >= Len(PROVIDERS) \/ acc.exc # "" THEN acc
    ELSE IF Len(row) > j + 4
    THEN ScoreLoop_ZeroFill(StoreScore(acc, PROVIDERS[j + 1],
                                       ParseScore(strip(Cell(row, j + 4)))),
                            row, j + 1)
    ELSE ScoreLoop_ZeroFill(StoreScore(acc, PROVIDERS[j + 1],
                                       [exc |-> "", val |-> Zero]),
                            row, j + 1)

\* the loop over PROVIDERS of a criterion row; acc is [exc, scores]
RECURSIVE ScoreLoop(_, _, _)
ScoreLoop(acc, row, j) ==
    IF j >= Len(PROVIDERS) \/ acc.exc # "" THEN acc
    ELSE IF Len(row) > j + 4
    THEN ScoreLoop(StoreScore(acc, PROVIDERS[j + 1],
                              ParseScore(strip(Cell(row, j + 4)))),
                   row, j + 1)
    ELSE ScoreLoop(acc, row, j + 1)

\* a slip: the list assigned, not appended to
BuildCriterion_Overwrite(st, crit, w, sc) ==
    IF w.exc # "" THEN [st EXCEPT !.exc = w.exc]
    ELSE IF sc.exc # "" THEN [st EXCEPT !.exc = sc.exc]
    ELSE [st EXCEPT !.heap[st.current_category].criteria =
                        <<[crit EXCEPT !.weight = w.val,
                                       !.scores = sc.scores]>>]

\* current_category.criteria.append(criterion)
BuildCriterion(st, crit, w, sc) ==
    IF w.exc # "" THEN [st EXCEPT !.exc = w.exc]
    ELSE IF sc.exc # "" THEN [st EXCEPT !.exc = sc.exc]
    ELSE [st EXCEPT !.heap[st.current_category].criteria =
                        Append(@, [crit EXCEPT !.weight = w.val,
                                               !.scores = sc.scores])]

AppendCriterion(st, row, idx, mscw, criterion_name, weight_str, description) ==
    BuildCriterion(st,
                   Criterion(mscw, Zero,
                             IF criterion_name # <<>> THEN criterion_name
                             ELSE truncate_text(description, 40),
                             description, idx),
                   ParseWeight(weight_str),
                   ScoreLoop([exc |-> "", scores |-> <<>>], row, 0))

\* a slip: the cost-range branch without its `continue`
Classify_TcoFallsThrough(st, row, idx, mscw, criterion_name, weight_str, description) ==
    IF DictHas(CATEGORY_MAP, mscw)
    THEN OpenCategory(st, mscw, idx)
    ELSE IF IsFinalScoreRow(weight_str, description)
    THEN [st EXCEPT !.final_scores = FinalScoreLoop(@, row, 0)]
    ELSE IF IsSubtotalRow(weight_str, mscw)
    THEN IF st.current_category # NoRef
         THEN [st EXCEPT !.tco_values = TcoLoop(@, row, 0),
                         !.heap[st.current_category].subtotals =
                             SubtotalLoop(@, row, 0)]
         ELSE [st EXCEPT !.tco_values = TcoLoop(@, row, 0)]
    ELSE IF IsCriterionRow(mscw, st.current_category)
    THEN AppendCriterion([st EXCEPT !.tco_values = TcoLoop(@, row, 0)],
                         row, idx, mscw, criterion_name, weight_str,
                         description)
    ELSE [st EXCEPT !.tco_values = TcoLoop(@, row, 0)]

\* a slip: the criterion branch without its test of current_category
Classify_NoCategoryTest(st, row, idx, mscw, criterion_name, weight_str, description) ==
    IF DictHas(CATEGORY_MAP, mscw)
    THEN OpenCategory(st, mscw, idx)
    ELSE IF IsFinalScoreRow(weight_str, description)
    THEN [st EXCEPT !.final_scores = FinalScoreLoop(@, row, 0)]
    ELSE IF Len(row) > 4 /\ has_tco(row)
    THEN [st EXCEPT !.tco_values = TcoLoop(@, row, 0)]
    ELSE IF IsSubtotalRow(weight_str, mscw)
    THEN IF st.current_category # NoRef
         THEN [st EXCEPT !.heap[st.current_category].subtotals =
                             SubtotalLoop(@, row, 0)]
         ELSE st
    ELSE IF mscw \in {S_Must, S_Should, S_Could}
    THEN IF st.current_category # NoRef
         THEN AppendCriterion(st, row, idx, mscw, criterion_name, weight_str,
                              description)
         ELSE [st EXCEPT !.exc = "AttributeError"]
    ELSE st

\* the classification of a row of at least four cells
Classify(st, row, idx, mscw, criterion_name, weight_str, description) ==
    IF DictHas(CATEGORY_MAP, mscw)
    THEN OpenCategory(st, mscw, idx)
    ELSE IF IsFinalScoreRow(weight_str, description)
    THEN [st EXCEPT !.final_scores = FinalScoreLoop(@, row, 0)]
    ELSE IF Len(row) > 4 /\ has_tco(row)
    THEN [st EXCEPT !.tco_values = TcoLoop(@, row, 0)]
    ELSE IF IsSubtotalRow(weight_str, mscw)
    THEN IF st.current_category # NoRef
         THEN [st EXCEPT !.heap[st.current_category].subtotals =
                             SubtotalLoop(@, row, 0)]
         ELSE st
    ELSE IF IsCriterionRow(mscw, st.current_category)
    THEN AppendCriterion(st, row, idx, mscw, criterion_name, weight_str,
                         description)
    ELSE st

\* a slip: rows of three cells let through
LoopBody_ThreeCells(st, row, idx) ==
    IF Len(row) < 3 THEN st
    ELSE Classify(st, row, idx, strip(Cell(row, 0)), strip(Cell(row, 1)),
                  strip(Cell(row, 2)),
                  IF Len(row) > 3 THEN strip(Cell(row, 3)) ELSE <<>>)

LoopBody(st, row, idx) ==
    IF Len(row) < 4 THEN st
    ELSE Classify(st, row, idx, strip(Cell(row, 0)), strip(Cell(row, 1)),
                  strip(Cell(row, 2)), strip(Cell(row, 3)))

(***************************************************************************)
(* The input: cell texts and the rows the file is drawn from.              *)
(***************************************************************************)
T_x == <<"x">>
T_blank == <<" ", " ">>
T_CopilotPadded == <<" ", "C", "O", "P", "I", "L", "O", "T", " ">>
T_MarkerInText ==
    <<"x", " ", "u0417", "u0430", "u0433", "u0430", "u043B", "u044C",
      "u043D", "u0430", " ", "u043E", "u0446", "u0456", "u043D", "u043A",
      "u0430">>
T_100pctPadded == <<" ", "1", "0", "0", "%", " ">>
T_84pct == <<"8", "4", ".", "1", "%">>
T_70pctPadded == <<" ", "7", "0", "%", " ">>
T_60pct == <<"6", "0", "%">>
T_90pctPadded == <<" ", "9", "0", "%", " ">>
T_Tco1 == <<"1", "5", "0", " ", "-", " ", "2", "0", "0", " ", "0", "0", "0">>
T_Tco2Padded == <<" ", "8", "0", "-", "1", "0", "0", "0", "0", "0", " ">>
T_Tco3Padded == <<" ", "1", "0", "-", "2", "0", " ", "0", "0", "0", " ">>
T_Tco4 == <<"1", "5", "0", "-", "2", "0", "0", " ", "0", "0", "0">>
T_NA == <<"N", "/", "A">>
T_TCO == <<"T", "C", "O">>
T_cost == <<"c", "o", "s", "t">>
T_20pct == <<"2", "0", "%">>
T_80pct == <<"8", "0", "%">>
T_65pct == <<"6", "5", "%">>
T_50pct == <<"5", "0", "%">>
T_avg == <<"a", "v", "g">>
T_name == <<"n", "a", "m", "e">>
T_4p5 == <<"4", ".", "5">>
T_4c5 == <<"4", ",", "5">>
T_5 == <<"5">>
T_3 == <<"3">>
T_text ==
    <<"S", "o", "m", "e", " ", "r", "e", "q", "u", "i", "r", "e", "m", "e",
      "n", "t", " ", "t", "e", "x", "t">>
T_ShouldPadded == <<" ", "S", "h", "o", "u", "l", "d", " ">>
T_abc == <<"a", "b", "c">>
T_longtext ==
    <<"S", "o", "m", "e", " ", "r", "e", "q", "u", "i", "r", "e", "m", "e",
      "n", "t", " ", "t", "e", "x", "t", " ", "l", "o", "n", "g", "e", "r",
      " ", "t", "h", "a", "n", " ", "f", "o", "r", "t", "y", " ", "c", "h",
      "a", "r", "a", "c", "t", "e", "r", "s">>
T_4c5pctPadded == <<" ", "4", ",", "5", "%", " ">>
T_nan == <<"n", "a", "n">>
T_d == <<"d">>
T_1e3 == <<"1", "e", "3">>
T_negp5 == <<"-", ".", "5">>
T_5pct == <<"5", "%">>
T_must == <<"m", "u", "s", "t">>
T_n == <<"n">>
T_4 == <<"4">>
T_inf == <<"i", "n", "f">>

\* a row of n cells: the given cells, then `fill` up to n
Row(cells, fill, n) == cells \o [k \in 1..(n - Len(cells)) |-> fill]

RowHeader == Row(<<S_MSCW, <<>>, S_WeightPct, S_Description>>, T_x, 16)

\* the header of the three-column layout: weight in the second column
RowHeader3 == Row(<<S_MSCW, S_WeightPct, S_Description>>, T_x, 15)

RowCopilot ==
    Row(<<T_CopilotPadded, <<>>, S_100pct, S_Marker, T_Tco1, T_5>>, <<>>, 16)

RowAcw == <<K_ACW, S_Must, S_100pct, S_Marker, T_Tco1, T_5>>

RowFinal ==
    Row(<<<<>>, <<>>, S_100pct, S_Marker, T_84pct, T_Tco1, T_70pctPadded>>,
        T_60pct, 16)

RowFinalShort ==
    <<S_Must, <<>>, T_100pctPadded, T_MarkerInText, T_90pctPadded>>

\* final scores: a number, nan, a larger number twice, an empty cell
RowFinalMixed ==
    <<<<>>, <<>>, S_100pct, S_Marker, T_50pct, T_nan, T_80pct, T_80pct, <<>>>>

RowTcoCould ==
    Row(<<S_Could, T_TCO, T_4p5, T_cost, T_Tco1, T_NA, T_Tco2Padded>>,
        <<>>, 16)

RowTcoSub == <<<<>>, <<>>, T_20pct, <<>>, T_NA, T_Tco3Padded>>

\* 17 cells: the last one lies beyond the last provider column
RowSubtotal ==
    Row(<<T_blank, T_avg, T_20pct, <<>>, T_80pct, T_65pct>>, T_50pct, 16)
        \o <<T_Tco4>>

RowMust ==
    Row(<<S_Must, T_name, T_4p5, T_text, T_5, T_3, T_abc>>, T_5pct, 16)

RowCould == <<S_Could, <<>>, T_4c5, <<>>, T_4c5, T_4p5, T_inf>>

RowShould ==
    <<T_ShouldPadded, <<>>, T_4c5pctPadded, T_longtext, T_abc, <<>>, T_4c5,
      T_nan, T_1e3, T_negp5>>

\* a criterion row of four cells: no weight, no score column
RowBare == <<S_Should, <<>>, <<>>, T_d>>

RowShort == <<K_COPILOT, S_Must, T_5pct>>

RowShortMust == <<S_Must, T_n, T_4p5>>

RowOther == <<T_must, T_n, T_3, T_d, T_5, T_4>>

\* rows of the three-column layout: no column for the short name
RowCategory3 == Row(<<<<>>, <<>>, K_COPILOT>>, <<>>, 15)

RowCriterion3 == Row(<<S_Must, T_4p5, T_text, T_5, T_3>>, T_4, 15)

RowSubtotal3 == Row(<<<<>>, T_20pct, <<>>, T_80pct, T_65pct>>, T_50pct, 15)

RowFinal3 == Row(<<<<>>, S_100pct, S_Marker, T_84pct>>, T_60pct, 15)

\* a file written in the three-column layout throughout
Layout3File == <<RowHeader3, RowCategory3, RowCriterion3>>

RowPool ==
    {RowHeader, RowCopilot, RowAcw, RowFinal, RowFinalShort, RowTcoCould,
     RowTcoSub, RowSubtotal, RowMust, RowShould, RowCould, RowBare,
     RowShort, RowShortMust, RowOther, RowSubtotal3, RowFinal3}

\* rows before the header are only compared with the header's signature:
\* a row too short, a category-header row, a criterion row
SkipPool == {RowShort, RowCopilot, RowMust}

\* the rows a file may go on with after the rows `read`, none of them the
\* header: a row of SkipPool while fewer than MaxSkip rows were read, and
\* the next row of Layout3File
NextSkipped(read) ==
    {row \in SkipPool : Len(read) < MaxSkip}
        \cup {Layout3File[k] : k \in {n \in 1..Len(Layout3File) :
                                         read = SubSeq(Layout3File, 1, n - 1)}}

(***************************************************************************)
(* The state of one call of parse_csv.  The scan never looks ahead, so     *)
(* `rows` holds the rows of the file up to the one being read and each     *)
(* step draws the next row; the file is complete when the call ends.       *)
(* exc is the exception that ended the run.  html_content, html_file and   *)
(* backup_file belong to main: the document generated and the contents of  *)
(* index.html and index_backup.html on disk.                               *)
(***************************************************************************)
VARIABLES pc, rows, header_row_idx, heap, categories, current_category,
          final_scores, tco_values, exc, html_content, html_file,
          backup_file

vars == <<pc, rows, header_row_idx, heap, categories, current_category,
          final_scores, tco_values, exc, html_content, html_file,
          backup_file>>

\* no exception; an exception of a type, raised at a place of the program
NoExc == [type |-> "", at |-> ""]

Raised(type, at) == [type |-> type, at |-> at]

\* a document: the one main generates holds the cards of the providers in
\* their order and the category tabs
Document(kind, provider_cards, category_tabs) ==
    [kind |-> kind, provider_cards |-> provider_cards,
     category_tabs |-> category_tabs]

Doc(kind, category_tabs) == Document(kind, <<>>, category_tabs)

\* no document generated yet; no file of that name on disk
NoDoc == Doc("none", <<>>)

Absent == Doc("absent", <<>>)

\* what a call of parse_csv leaves alone
main_vars == <<html_content, html_file, backup_file>>

Init ==
    /\ pc = "find_header"
    /\ rows = <<>>
    /\ header_row_idx = NoIdx
    /\ heap = <<>>
    /\ categories = <<>>
    /\ current_category = NoRef
    /\ final_scores = <<>>
    /\ tco_values = <<>>
    /\ exc = NoExc
    /\ html_content = NoDoc
    /\ html_file = Absent
    /\ backup_file = Absent

Locals ==
    [heap |-> heap, categories |-> categories,
     current_category |-> current_category, final_scores |-> final_scores,
     tco_values |-> tco_values, exc |-> ""]

\* for i, row in enumerate(rows): one iteration of the header search
FindHeader ==
    /\ pc = "find_header"
    /\ Len(rows) < MaxRows
    /\ \E row \in RowPool \cup NextSkipped(rows) :
         /\ rows' = Append(rows, row)
         /\ IF IsHeaderRow(row)
            THEN /\ header_row_idx' = Len(rows)
                 /\ pc' = "process_rows"
            ELSE /\ row \in NextSkipped(rows)
                 /\ UNCHANGED <<header_row_idx, pc>>
    /\ UNCHANGED <<heap, categories, current_category, final_scores,
                   tco_values, exc, main_vars>>

\* the search ran off the end of the file: raise ValueError
HeaderNotFound ==
    /\ pc = "find_header"
    /\ pc' = "raised"
    /\ exc' = Raised("ValueError", "parse_csv")
    /\ UNCHANGED <<rows, header_row_idx, heap, categories, current_category,
                   final_scores, tco_values, main_vars>>

\* the locals after the iteration; an exception leaves the function
Assign(st) ==
    /\ heap' = st.heap
    /\ categories' = st.categories
    /\ current_category' = st.current_category
    /\ final_scores' = st.final_scores
    /\ tco_values' = st.tco_values
    /\ pc' = IF st.exc # "" THEN "raised" ELSE pc
    /\ exc' = IF st.exc # "" THEN Raised(st.exc, "parse_csv") ELSE exc

\* for i in range(header_row_idx + 1, len(rows)): one iteration
ProcessRow ==
    /\ pc = "process_rows"
    /\ Len(rows) < MaxRows
    /\ \E row \in RowPool :
         /\ rows' = Append(rows, row)
         /\ Assign(LoopBody(Locals, row, Len(rows)))
    /\ UNCHANGED <<header_row_idx, main_vars>>

\* return categories, final_scores, tco_values
Return ==
    /\ pc = "process_rows"
    /\ pc' = "returned"
    /\ UNCHANGED <<rows, header_row_idx, heap, categories, current_category,
                   final_scores, tco_values, exc, main_vars>>

Next == FindHeader \/ HeaderNotFound \/ ProcessRow \/ Return

Spec == Init /\ [][Next]_vars

(***************************************************************************)
(* main.  It calls parse_csv on the whole file, prints the summary, backs  *)
(* up index.html, generates the document and writes it.                    *)
(***************************************************************************)
\* the locals of parse_csv at its start
NewLocals ==
    [heap |-> <<>>, categories |-> <<>>, current_category |-> NoRef,
     final_scores |-> <<>>, tco_values |-> <<>>, exc |-> ""]

\* a slip: the search without its break, the last such row wins
HeaderIdx_Last(file) ==
    IF \E i \in 1..Len(file) : IsHeaderRow(file[i])
    THEN (CHOOSE i \in 1..Len(file) :
              /\ IsHeaderRow(file[i])
              /\ \A k \in (i + 1)..Len(file) : ~IsHeaderRow(file[k])) - 1
    ELSE NoIdx

\* the index of the first row with the header's signature, NoIdx if none
HeaderIdx(file) ==
    IF \E i \in 1..Len(file) : IsHeaderRow(file[i])
    THEN SetMin({i \in 1..Len(file) : IsHeaderRow(file[i])}) - 1
    ELSE NoIdx

\* for i in range(header_row_idx + 1, len(rows)), from the iteration i on
RECURSIVE RowLoop(_, _, _)
RowLoop(st, file, i) ==
    IF i >= Len(file) \/ st.exc # "" THEN st
    ELSE RowLoop(LoopBody(st, file[i + 1], i), file, i + 1)

ParseFrom(file, idx) ==
    IF idx = NoIdx THEN [NewLocals EXCEPT !.exc = "ValueError"]
    ELSE RowLoop(NewLocals, file, idx + 1)

parse_csv(file) == ParseFrom(file, HeaderIdx(file))

\* the first exception of a sequence of outcomes, "" when there is none
FirstExc(excs) ==
    IF \E n \in 1..Len(excs) : excs[n] # ""
    THEN excs[SetMin({n \in 1..Len(excs) : excs[n] # ""})]
    ELSE ""

\* the key of the summary's sort: float(x[1].replace('%', '')
\* .replace(',', '.')) if x[1] else 0
SummaryKey(score) ==
    IF score = <<>> THEN [exc |-> "", val |-> Zero]
    ELSE float(replace(replace(score, "%", <<>>), ",", <<".">>))

\* sorted(final_scores.items(), key=...): the keys are computed in the
\* order of the items and the first failure leaves main
SummaryExc(final) ==
    FirstExc([n \in 1..Len(final) |-> SummaryKey(final[n][2]).exc])

\* a slip: the copy left out
BackupCopy_Never(html, backup) == backup

\* if html_path.exists(): shutil.copy(html_path, backup_path); the content
\* of the backup afterwards
BackupCopy(html, backup) == IF html # Absent THEN html ELSE backup

\* int(score): no integer for nan, none for an infinity
IntExc(score) ==
    IF score.kind = "nan" THEN "ValueError"
    ELSE IF score.kind = "inf" THEN "OverflowError"
    ELSE ""

\* criterion.scores.get(provider, 0)
ScoreOf(criterion, provider) ==
    IF DictHas(criterion.scores, provider)
    THEN DictGet(criterion.scores, provider)
    ELSE Zero

\* generate_criteria_row: score == int(score) for each provider in turn
CriteriaRowExc(criterion) ==
    FirstExc([j \in 1..Len(PROVIDERS) |->
                  IntExc(ScoreOf(criterion, PROVIDERS[j]))])

\* generate_category_tab: a row for each criterion in turn
CategoryTabExc(category) ==
    FirstExc([n \in 1..Len(category.criteria) |->
                  CriteriaRowExc(category.criteria[n])])

\* the order of the category tabs
TAB_ORDER == <<"copilot", "acw", "analytics", "precall", "it", "business">>

\* the tabs of the categories the result holds
CategoryTabs(cats) ==
    SelectSeq(TAB_ORDER, LAMBDA cat_id : DictHas(cats, cat_id))

TabsExc(h, cats, tabs) ==
    FirstExc([k \in 1..Len(tabs) |-> CategoryTabExc(h[DictGet(cats, tabs[k])])])

\* parse_score: float(s.replace('%', '').replace(',', '.')), 0 when that
\* raises
ParseScoreOf(r) == IF r.exc # "" THEN Zero ELSE r.val

parse_score(s) ==
    ParseScoreOf(float(replace(replace(s, "%", <<>>), ",", <<".">>)))

\* d.get(k, default)
Get(d, k, default) == IF DictHas(d, k) THEN DictGet(d, k) ELSE default

RECURSIVE Pow10(_)
Pow10(n) == IF n <= 0 THEN 1 ELSE 10 * Pow10(n - 1)

\* the number a is, times ten to the k
Scaled(a, k) == (IF a.neg THEN 0 - a.m ELSE a.m) * Pow10(k - a.e)

\* a < b of two floats: false when either is nan
FloatLt(a, b) ==
    IF a.kind = "nan" \/ b.kind = "nan" THEN FALSE
    ELSE IF a.kind = "inf" THEN a.neg /\ ~(b.kind = "inf" /\ b.neg)
    ELSE IF b.kind = "inf" THEN ~b.neg
    ELSE Scaled(a, IF a.e > b.e THEN a.e ELSE b.e)
             < Scaled(b, IF a.e > b.e THEN a.e ELSE b.e)

(***************************************************************************)
(* sorted(iterable, key=..., reverse=True) on a list of fewer than 64      *)
(* items, as list.sort does it: the list of <<key, item>> is reversed, its *)
(* first run is found (and reversed when it descends), the other items are *)
(* put in place by binary insertion, and the list is reversed again.  Only *)
(* < is applied to the keys.                                               *)
(***************************************************************************)
RECURSIVE Reversed(_)
Reversed(s) ==
    IF s = <<>> THEN <<>> ELSE Append(Reversed(Tail(s)), Head(s))

KeyLt(x, y) == FloatLt(x[1], y[1])

\* count_run: the length of the run s starts with, n items of it known
RECURSIVE RunLength(_, _, _)
RunLength(s, n, descending) ==
    IF n < Len(s) /\ KeyLt(s[n + 1], s[n]) = descending
    THEN RunLength(s, n + 1, descending)
    ELSE n

count_run(s) == RunLength(s, 2, KeyLt(s[2], s[1]))

\* the place of pivot among s[l], ..., s[r - 1], l < r
RECURSIVE BinarySearch(_, _, _, _)
BinarySearch(s, pivot, l, r) ==
    IF l >= r THEN l
    ELSE IF KeyLt(pivot, s[l + (r - l) \div 2])
    THEN BinarySearch(s, pivot, l, l + (r - l) \div 2)
    ELSE BinarySearch(s, pivot, l + (r - l) \div 2 + 1, r)

\* the item at `from` moved down to the place `to`
MoveTo(s, from, to) ==
    SubSeq(s, 1, to - 1) \o <<s[from]>> \o SubSeq(s, to, from - 1)
        \o SubSeq(s, from + 1, Len(s))

\* binarysort: the items from `start` on inserted into the sorted ones
RECURSIVE binarysort(_, _)
binarysort(s, start) ==
    IF start > Len(s) THEN s
    ELSE binarysort(MoveTo(s, start, BinarySearch(s, s[start], 1, start)),
                    start + 1)

\* the first n items reversed when the run descends
RunAscending(s, n, descending) ==
    IF descending
    THEN Reversed(SubSeq(s, 1, n)) \o SubSeq(s, n + 1, Len(s))
    ELSE s

SortRun(s, n) ==
    binarysort(RunAscending(s, n, KeyLt(s[2], s[1])), n + 1)

listsort(s) == IF Len(s) < 2 THEN s ELSE SortRun(s, count_run(s))

sorted_reverse(s) == Reversed(listsort(Reversed(s)))

\* sorted(PROVIDERS, key=lambda p: parse_score(final_scores.get(p, "0")),
\* reverse=True)
ItemsOf(s) == [k \in 1..Len(s) |-> s[k][2]]

\* the providers from the j-th on, each with its key
RECURSIVE Keyed(_, _)
Keyed(final, j) ==
    IF j > Len(PROVIDERS) THEN <<>>
    ELSE <<<<parse_score(Get(final, PROVIDERS[j], S_Zero)), PROVIDERS[j]>>>>
             \o Keyed(final, j + 1)

sorted_providers(final) == ItemsOf(sorted_reverse(Keyed(final, 1)))

\* the cards: for rank, provider in enumerate(sorted_providers, 1)
ProviderCards(order, final, tco) ==
    [n \in 1..Len(order) |->
        [provider |-> order[n], rank |-> n,
         score |-> Get(final, order[n], S_ZeroPct),
         tco |-> Get(tco, order[n], S_NotAvailable)]]

\* generate_html: the document, or the exception of the first tab that
\* fails; the cards of the providers raise nothing
generate_html(h, cats, final, tco) ==
    [exc |-> TabsExc(h, cats, CategoryTabs(cats)),
     val |-> Document("generated",
                      ProviderCards(sorted_providers(final), final, tco),
                      CategoryTabs(cats))]

\* the files main may find on disk
OldDoc == Doc("old", <<>>)

OldBackup == Doc("old backup", <<>>)

\* index.html opened for writing and not written to its end
Truncated == Doc("truncated", <<>>)

\* the rows of new_data.csv
MainPool ==
    {RowHeader, RowCopilot, RowFinal, RowFinalShort, RowFinalMixed, RowMust,
     RowShould, RowCould}

\* a file with rows before the header and with the header row twice
RepeatedHeaderFile == <<RowMust, RowHeader, RowCopilot, RowHeader, RowMust>>

MainFiles ==
    UNION {[1..n -> MainPool] : n \in 0..MaxFileLen}
        \cup {RepeatedHeaderFile}

InitMain ==
    /\ pc = "main"
    /\ rows = <<>>
    /\ header_row_idx = NoIdx
    /\ heap = <<>>
    /\ categories = <<>>
    /\ current_category = NoRef
    /\ final_scores = <<>>
    /\ tco_values = <<>>
    /\ exc = NoExc
    /\ html_content = NoDoc
    /\ html_file \in {Absent, OldDoc}
    /\ backup_file \in {Absent, OldBackup}

\* a slip: the exception is noted and main goes on
Continue_Logged(e, at, next) ==
    /\ pc' = next
    /\ exc' = IF e # "" THEN Raised(e, at) ELSE exc

\* main goes on at `next`, or the exception e leaves it at the place `at`
Continue(e, at, next) ==
    /\ pc' = IF e # "" THEN "raised" ELSE next
    /\ exc' = IF e # "" THEN Raised(e, at) ELSE exc

Parsed(file, st) ==
    /\ rows' = file
    /\ header_row_idx' = HeaderIdx(file)
    /\ heap' = st.heap
    /\ categories' = st.categories
    /\ current_category' = st.current_category
    /\ final_scores' = st.final_scores
    /\ tco_values' = st.tco_values
    /\ Continue(st.exc, "parse_csv", "print_summary")

\* categories, final_scores, tco_values = parse_csv(str(csv_path))
MainParse ==
    /\ pc = "main"
    /\ \E file \in MainFiles : Parsed(file, parse_csv(file))
    /\ UNCHANGED main_vars

\* the prints of the summary
MainSummary ==
    /\ pc = "print_summary"
    /\ Continue(SummaryExc(final_scores), "print_summary", "backup")
    /\ UNCHANGED <<rows, header_row_idx, heap, categories, current_category,
                   final_scores, tco_values, main_vars>>

\* the backup of an index.html that exists
MainBackup ==
    /\ pc = "backup"
    /\ backup_file' = BackupCopy(html_file, backup_file)
    /\ pc' = "generate_html"
    /\ UNCHANGED <<rows, header_row_idx, heap, categories, current_category,
                   final_scores, tco_values, exc, html_content, html_file>>

Generated(r) ==
    /\ html_content' = IF r.exc # "" THEN html_content ELSE r.val
    /\ Continue(r.exc, "generate_html", "write_html")

\* html_content = generate_html(categories, final_scores, tco_values)
MainGenerate ==
    /\ pc = "generate_html"
    /\ Generated(generate_html(heap, categories, final_scores, tco_values))
    /\ UNCHANGED <<rows, header_row_idx, heap, categories, current_category,
                   final_scores, tco_values, html_file, backup_file>>

\* with open(html_path, 'w') as f: f.write(html_content)
MainWrite ==
    /\ pc = "write_html"
    /\ html_file' = html_content
    /\ pc' = "done"
    /\ UNCHANGED <<rows, header_row_idx, heap, categories, current_category,
                   final_scores, tco_values, exc, html_content, backup_file>>

\* the file cannot be opened, or it is opened (and so emptied) and the
\* write fails
MainWriteFails ==
    /\ pc = "write_html"
    /\ html_file' \in {html_file, Truncated}
    /\ pc' = "raised"
    /\ exc' = Raised("OSError", "write_html")
    /\ UNCHANGED <<rows, header_row_idx, heap, categories, current_category,
                   final_scores, tco_values, html_content, backup_file>>

NextMain ==
    \/ MainParse
    \/ MainSummary
    \/ MainBackup
    \/ MainGenerate
    \/ MainWrite
    \/ MainWriteFails

SpecMain == InitMain /\ [][NextMain]_vars

(***************************************************************************)
(* Vocabulary of the properties.  Row indices are the program's: the row   *)
(* with index p is rows[p + 1].                                            *)
(***************************************************************************)
RowAt(p) == rows[p + 1]

\* the indices of the rows the second loop has gone through
Scanned ==
    {p \in 0..(Len(rows) - 1) : header_row_idx # NoIdx /\ p > header_row_idx}

\* a step of the second loop; it reads the row NewRow
Scanning == pc = "process_rows" /\ Len(rows') = Len(rows) + 1

NewRow == rows'[Len(rows')]

Priorities == {S_Must, S_Should, S_Could}

\* the five rules, each taken alone, for a row of the four-column layout
RuleCategory(row) ==
    Len(row) >= 4 /\ DictHas(CATEGORY_MAP, strip(row[1]))

RuleFinal(row) ==
    /\ Len(row) >= 4
    /\ strip(row[3]) = S_100pct
    /\ Contains(strip(row[4]), S_Marker)

RuleTco(row) ==
    /\ Len(row) >= 4
    /\ \E k \in 5..16 : k <= Len(row) /\ re_match_tco(strip(row[k]))

RuleSubtotal(row) ==
    /\ Len(row) >= 4
    /\ strip(row[1]) = <<>>
    /\ Contains(strip(row[3]), <<"%">>)

RuleCriterion(row) == Len(row) >= 4 /\ strip(row[1]) \in Priorities

\* the first rule a row matches, 0 when it matches none
FirstRule(row) ==
    IF RuleCategory(row) THEN 1
    ELSE IF RuleFinal(row) THEN 2
    ELSE IF RuleTco(row) THEN 3
    ELSE IF RuleSubtotal(row) THEN 4
    ELSE IF RuleCriterion(row) THEN 5
    ELSE 0

\* what a step changes
ChangesCategories ==
    \/ categories' # categories
    \/ current_category' # current_category
    \/ Len(heap') # Len(heap)

ChangesFinal == final_scores' # final_scores

ChangesTco == tco_values' # tco_values

ChangesSubtotals ==
    \E r \in 1..Len(heap) : heap'[r].subtotals # heap[r].subtotals

ChangesCriteria ==
    \E r \in 1..Len(heap) : heap'[r].criteria # heap[r].criteria

\* all criteria ever appended, as <<reference of the category, position>>
AllCriteria ==
    UNION {{<<r, n>> : n \in 1..Len(heap[r].criteria)} : r \in 1..Len(heap)}

CritOf(rn) == heap[rn[1]].criteria[rn[2]]

\* a category is open when the row with index p is read
OpenBefore(p) == \E r \in 1..Len(heap) : heap[r].opened_at < p

\* the category identity a category-header row names
CatIdOf(row) == DictGet(CATEGORY_MAP, strip(row[1]))[1]

(***************************************************************************)
(* C1 (as the spec has it): parse_csv fails exactly when no row has the    *)
(* sentinels 'MSCW' and 'Weight %' in its first two columns.               *)
(***************************************************************************)
C1_SpecSignature(row) ==
    Len(row) >= 2 /\ row[1] = S_MSCW /\ row[2] = S_WeightPct

C1_Original ==
    /\ pc = "raised" => \A k \in 1..Len(rows) : ~C1_SpecSignature(rows[k])
    /\ pc \in {"process_rows", "returned"} =>
          \E k \in 1..Len(rows) : C1_SpecSignature(rows[k])

(***************************************************************************)
(* C1 (amended): parse_csv fails exactly when no row of more than three    *)
(* cells has 'MSCW' in its first and 'Weight %' in its third column; when  *)
(* some row has, the first such row is the header and extraction goes on   *)
(* behind it.                                                              *)
(***************************************************************************)
C1_Signature(row) ==
    Len(row) > 3 /\ row[1] = S_MSCW /\ row[3] = S_WeightPct

C1_HeaderSignature ==
    /\ pc = "raised" => \A k \in 1..Len(rows) : ~C1_Signature(rows[k])
    /\ pc = "find_header" => \A k \in 1..Len(rows) : ~C1_Signature(rows[k])
    /\ pc \in {"process_rows", "returned"} =>
          /\ header_row_idx \in 0..(Len(rows) - 1)
          /\ C1_Signature(RowAt(header_row_idx))
          /\ \A p \in 0..(header_row_idx - 1) : ~C1_Signature(RowAt(p))

\* a row with the sentinels in its first two columns was passed over and
\* the header was found behind it
C1_Witness ==
    /\ pc = "process_rows"
    /\ header_row_idx = 1
    /\ C1_SpecSignature(RowAt(0))

(***************************************************************************)
(* C2: for every row after the header only the first rule it matches, in   *)
(* the order category header, grand total, cost range, subtotal,           *)
(* criterion, takes effect: the categories or the current category change  *)
(* only under rule 1, the final scores only under rule 2, the cost map     *)
(* only under rule 3, subtotals only under rule 4, criteria only under     *)
(* rule 5.                                                                 *)
(***************************************************************************)
C2_FirstRuleWins ==
    [][Scanning =>
          /\ ChangesCategories => FirstRule(NewRow) = 1
          /\ ChangesFinal => FirstRule(NewRow) = 2
          /\ ChangesTco => FirstRule(NewRow) = 3
          /\ ChangesSubtotals => FirstRule(NewRow) = 4
          /\ ChangesCriteria => FirstRule(NewRow) = 5]_vars

\* a Must/Should/Could row with a cost cell was read under an open
\* category: it went to the cost map and added no criterion
C2_Witness ==
    \E p \in Scanned :
        /\ FirstRule(RowAt(p)) = 3
        /\ RuleCriterion(RowAt(p))
        /\ OpenBefore(p)
        /\ tco_values # <<>>
        /\ \A rn \in AllCriteria : CritOf(rn).src_row # p

(***************************************************************************)
(* C3: once the header row is found parse_csv never raises, and a weight   *)
(* or score cell that float() rejects is stored as 0.                      *)
(***************************************************************************)
C3_Malformed(cell) ==
    float(replace(strip(cell), ",", <<".">>)).exc = "ValueError"

C4_PriorityClosed ==
    /\ \A rn \in AllCriteria : CritOf(rn).priority \in Priorities
    /\ \A p \in Scanned :
          ~RuleCriterion(RowAt(p)) =>
              \A rn \in AllCriteria : CritOf(rn).src_row # p

\* under an open category a row with another priority text was dropped
\* and a row with a padded priority became a criterion
C4_Witness ==
    /\ \E p \in Scanned :
          /\ Len(RowAt(p)) >= 4
          /\ strip(RowAt(p)[1]) \notin Priorities \cup {<<>>}
          /\ FirstRule(RowAt(p)) = 0
          /\ OpenBefore(p)
    /\ \E rn \in AllCriteria :
          RowAt(CritOf(rn).src_row)[1] # CritOf(rn).priority

(***************************************************************************)
(* C5: every accepted criterion row is appended to exactly one category,   *)
(* the one the most recent category-header row before it opened; the       *)
(* criteria of a category stand in the order of their rows and no          *)
(* criterion stands twice or in two categories.                            *)
(***************************************************************************)
MaxOf(S) == CHOOSE x \in S : \A y \in S : y <= x

HeadersBefore(p) == {q \in Scanned : q < p /\ RuleCategory(RowAt(q))}

C5_OneCategoryInOrder ==
    /\ \A rn \in AllCriteria :
          /\ HeadersBefore(CritOf(rn).src_row) # {}
          /\ heap[rn[1]].opened_at = MaxOf(HeadersBefore(CritOf(rn).src_row))
          /\ heap[rn[1]].name =
                DictGet(CATEGORY_MAP,
                        strip(RowAt(heap[rn[1]].opened_at)[1]))[2]
    /\ \A rn \in AllCriteria : \A rm \in AllCriteria :
          /\ CritOf(rn).src_row = CritOf(rm).src_row => rn = rm
          /\ (rn[1] = rm[1] /\ rn[2] < rm[2]) =>
                CritOf(rn).src_row < CritOf(rm).src_row
    /\ \A p \in Scanned :
          (FirstRule(RowAt(p)) = 5 /\ HeadersBefore(p) # {}) =>
              \E rn \in AllCriteria : CritOf(rn).src_row = p

\* two categories were opened and the later one received a criterion
C5_Witness ==
    \E rn \in AllCriteria :
        /\ rn[1] > 1
        /\ heap[1].name # heap[rn[1]].name
        /\ heap[1].criteria = <<>>

(***************************************************************************)
(* C6 (as the spec has it): every criterion appended during the scan is    *)
(* present, unchanged, in the categories parse_csv returns.                *)
(***************************************************************************)
InResult(rn) ==
    \E n \in 1..Len(categories) :
        /\ rn[2] <= Len(heap[categories[n][2]].criteria)
        /\ heap[categories[n][2]].criteria[rn[2]] = CritOf(rn)

C6_Original == pc = "returned" => \A rn \in AllCriteria : InResult(rn)

(***************************************************************************)
(* C6 (amended): a criterion is never removed from or changed in the       *)
(* Category object it was appended to, and it is present, unchanged, in    *)
(* the categories parse_csv returns unless a later category-header row of  *)
(* the same category identity has replaced that Category.                  *)
(***************************************************************************)
\* a later header row names the identity of the category at reference r
Replaced(r) ==
    \E p \in Scanned :
        /\ p > heap[r].opened_at
        /\ RuleCategory(RowAt(p))
        /\ CatIdOf(RowAt(p)) = CatIdOf(RowAt(heap[r].opened_at))

C6_KeptInItsCategory ==
    [][/\ \A r \in 1..Len(heap) :
             /\ Len(heap') >= r
             /\ Len(heap'[r].criteria) >= Len(heap[r].criteria)
             /\ SubSeq(heap'[r].criteria, 1, Len(heap[r].criteria)) =
                   heap[r].criteria
       /\ pc' = "returned" =>
             \A rn \in AllCriteria' :
                 ~Replaced(rn[1])' => InResult(rn)']_vars

\* parse_csv returned after a header row replaced a category that held a
\* criterion: the criterion is in no returned category
C6_Witness ==
    /\ pc = "returned"
    /\ \E rn \in AllCriteria : Replaced(rn[1]) /\ ~InResult(rn)

(***************************************************************************)
(* C7: a second category-header row of an identity already opened puts a   *)
(* new category with no criteria and no subtotals in its place; nothing    *)
(* gathered under the earlier header is in the result, whose categories    *)
(* are those of the last header row of each identity; the other            *)
(* categories stay as they are.                                            *)
(***************************************************************************)
SrcRows(h, r) == {h[r].criteria[m].src_row : m \in 1..Len(h[r].criteria)}

CatIds == {CATEGORY_MAP[k][2][1] : k \in 1..Len(CATEGORY_MAP)}

LastHeaderOf(id) ==
    MaxOf({p \in Scanned : RuleCategory(RowAt(p)) /\ CatIdOf(RowAt(p)) = id})

C7_SecondHeaderReplaces ==
    [][/\ (Scanning /\ RuleCategory(NewRow)
                    /\ DictHas(categories, CatIdOf(NewRow))) =>
             /\ DictHas(categories', CatIdOf(NewRow))
             /\ heap'[DictGet(categories', CatIdOf(NewRow))].criteria = <<>>
             /\ heap'[DictGet(categories', CatIdOf(NewRow))].subtotals = <<>>
             /\ \A n \in 1..Len(categories') :
                   SrcRows(heap', categories'[n][2]) \cap
                       SrcRows(heap, DictGet(categories, CatIdOf(NewRow))) = {}
             /\ Len(categories') = Len(categories)
             /\ \A n \in 1..Len(categories) :
                   /\ categories'[n][1] = categories[n][1]
                   /\ categories[n][1] # CatIdOf(NewRow) =>
                         /\ categories'[n][2] = categories[n][2]
                         /\ heap'[categories[n][2]] = heap[categories[n][2]]
       /\ \A id \in CatIds :
             DictHas(categories', id) =>
                 heap'[DictGet(categories', id)].opened_at =
                     LastHeaderOf(id)']_vars

\* a category that held a criterion was replaced by an empty one
C7_Witness ==
    \E n \in 1..Len(categories) : \E r \in 1..Len(heap) :
        /\ r < categories[n][2]
        /\ heap[r].name = heap[categories[n][2]].name
        /\ heap[r].criteria # <<>>
        /\ heap[categories[n][2]].criteria = <<>>
        /\ heap[categories[n][2]].subtotals = <<>>

(***************************************************************************)
(* C8: no row is taken both for a subtotal and for a criterion: a row with *)
(* an empty priority cell and a percent sign in its weight cell adds no    *)
(* criterion, a row with priority Must, Should or Could writes no          *)
(* subtotal.                                                               *)
(***************************************************************************)
C8_SubtotalOrCriterion ==
    [][Scanning =>
          /\ RuleSubtotal(NewRow) => ~ChangesCriteria
          /\ RuleCriterion(NewRow) => ~ChangesSubtotals]_vars

\* a Should row with a percent sign in its weight cell became a criterion
\* and wrote no subtotal
C8_Witness ==
    \E rn \in AllCriteria :
        /\ Contains(RowAt(CritOf(rn).src_row)[3], <<"%">>)
        /\ heap[rn[1]].subtotals = <<>>

(***************************************************************************)
(* C9: every value of the cost map matches the range pattern; a cost-range *)
(* row writes the trimmed cell of exactly the providers whose cell         *)
(* matches, and leaves the entry of every other provider as it was.        *)
(***************************************************************************)
\* the entry of key k is the same in dicts d and e
SameEntry(d, e, k) ==
    /\ DictHas(d, k) <=> DictHas(e, k)
    /\ DictHas(d, k) => DictGet(d, k) = DictGet(e, k)

C9_TcoPattern ==
    [][/\ \A n \in 1..Len(tco_values') : re_match_tco(tco_values'[n][2])
       /\ (Scanning /\ FirstRule(NewRow) = 3) =>
             \A j \in 1..Len(PROVIDERS) :
                 IF j + 4 <= Len(NewRow) /\ re_match_tco(strip(NewRow[j + 4]))
                 THEN /\ DictHas(tco_values', PROVIDERS[j])
                      /\ DictGet(tco_values', PROVIDERS[j]) =
                            strip(NewRow[j + 4])
                 ELSE SameEntry(tco_values, tco_values', PROVIDERS[j])]_vars

\* a cost-range row had a filled cell that does not match: its provider
\* has no entry, another provider has one
C9_Witness ==
    \E p \in Scanned : \E j \in 1..Len(PROVIDERS) :
        /\ FirstRule(RowAt(p)) = 3
        /\ j + 4 <= Len(RowAt(p))
        /\ strip(RowAt(p)[j + 4]) # <<>>
        /\ ~re_match_tco(strip(RowAt(p)[j + 4]))
        /\ ~DictHas(tco_values, PROVIDERS[j])
        /\ tco_values # <<>>

(***************************************************************************)
(* C10: a row that is no category header, whose weight cell is '100%' and  *)
(* whose description cell contains the marker of the overall score, writes *)
(* the trimmed cell of every provider column it has into the final scores  *)
(* and changes nothing else.                                               *)
(***************************************************************************)
C10_FinalScoreRow ==
    [][(/\ Scanning
        /\ Len(NewRow) >= 4
        /\ ~RuleCategory(NewRow)
        /\ NewRow[3] = S_100pct
        /\ Contains(NewRow[4], S_Marker)) =>
          /\ \A j \in 1..Len(PROVIDERS) :
                IF j + 4 <= Len(NewRow)
                THEN /\ DictHas(final_scores', PROVIDERS[j])
                     /\ DictGet(final_scores', PROVIDERS[j]) =
                           strip(NewRow[j + 4])
                ELSE SameEntry(final_scores, final_scores', PROVIDERS[j])
          /\ UNCHANGED <<heap, categories, current_category, tco_values>>
          /\ pc' = pc]_vars

\* a grand-total row with a padded cell and a cost cell was read: the
\* trimmed cell is in the final scores
C10_Witness ==
    \E p \in Scanned : \E j \in 1..Len(PROVIDERS) :
        /\ Len(RowAt(p)) >= j + 4
        /\ RowAt(p)[3] = S_100pct
        /\ Contains(RowAt(p)[4], S_Marker)
        /\ ~RuleCategory(RowAt(p))
        /\ RuleTco(RowAt(p))
        /\ RowAt(p)[j + 4] # strip(RowAt(p)[j + 4])
        /\ DictHas(final_scores, PROVIDERS[j])
        /\ DictGet(final_scores, PROVIDERS[j]) = strip(RowAt(p)[j + 4])

(***************************************************************************)
(* C11: the final-score map is populated from exactly one grand-total      *)
(* row: whatever the input, all its entries come from one and the same     *)
(* row.                                                                    *)
(***************************************************************************)
\* the entry of the map for the provider of column j + 4 is the one row p gives
GivenBy(entry, p, j) ==
    /\ Len(RowAt(p)) > j + 4
    /\ entry = <<PROVIDERS[j + 1], strip(RowAt(p)[j + 5])>>

C11_OneGrandTotalRow ==
    final_scores # <<>> =>
        \E p \in Scanned :
            /\ FirstRule(RowAt(p)) = 2
            /\ \A n \in 1..Len(final_scores) :
                   \E j \in 0..(Len(PROVIDERS) - 1) :
                       GivenBy(final_scores[n], p, j)

(***************************************************************************)
(* C12: in a criterion row, a weight cell that is empty or that float      *)
(* rejects gives the weight 0, and every score cell the row has and float  *)
(* rejects gives that provider the score 0; the criterion is appended all  *)
(* the same, with its priority, name and description.                      *)
(***************************************************************************)
\* float rejects the text of the cell, the comma read as a period
Unparsable(t) == float(replace(t, ",", <<".">>)).exc # ""

\* the row with index p is a criterion row read under an open category
CriterionRead(p) == FirstRule(RowAt(p)) = 5 /\ OpenBefore(p)

\* c is the criterion of the row: the fields that are not numbers
MadeFrom(c, row, p) ==
    /\ c.src_row = p
    /\ c.priority = strip(row[1])
    /\ c.description = strip(row[4])
    /\ c.name = IF strip(row[2]) # <<>> THEN strip(row[2])
                ELSE truncate_text(strip(row[4]), 40)

ZeroWhereUnparsable(c, row) ==
    /\ (strip(row[3]) = <<>> \/ Unparsable(strip(row[3]))) => c.weight = Zero
    /\ \A j \in 0..(Len(PROVIDERS) - 1) :
           (Len(row) > j + 4 /\ Unparsable(strip(row[j + 5]))) =>
               /\ DictHas(c.scores, PROVIDERS[j + 1])
               /\ DictGet(c.scores, PROVIDERS[j + 1]) = Zero

Num(m, e) == [kind |-> "num", neg |-> FALSE, m |-> m, e |-> e]

\* the numeric cells of the criteria: <<text of the cell, number stored>>
WeightCells ==
    {<<strip(RowAt(CritOf(rn).src_row)[3]), CritOf(rn).weight>> :
         rn \in AllCriteria}

ScoreCellsOf(c) ==
    {<<strip(RowAt(c.src_row)[j + 5]), DictGet(c.scores, PROVIDERS[j + 1])>> :
         j \in {k \in 0..(Len(PROVIDERS) - 1) : Len(RowAt(c.src_row)) > k + 4}}

ScoreCells == UNION {ScoreCellsOf(CritOf(rn)) : rn \in AllCriteria}

NumericCells == WeightCells \cup ScoreCells

\* the text of a cell with every comma written as a period
WithPeriod(t) == [k \in 1..Len(t) |-> IF t[k] = "," THEN "." ELSE t[k]]

C13_CommaDecimal ==
    /\ \A a \in NumericCells : a[1] = T_4c5 => a[2] = Num(45, 1)
    /\ \A a, b \in NumericCells : b[1] = WithPeriod(a[1]) => a[2] = b[2]

\* '4,5' was read as a weight and as a score, '4.5' as a score
C13_Witness ==
    /\ pc = "returned"
    /\ \E a \in WeightCells : a[1] = T_4c5
    /\ \E a, b \in ScoreCells : a[1] = T_4c5 /\ b[1] = T_4p5

(***************************************************************************)
(* C14: every numeric cell of a criterion row is parsed with its percent   *)
(* signs and the whitespace around it stripped: ' 4,5% ' is 4.5 and '5%'   *)
(* is 5, not 0.                                                            *)
(***************************************************************************)
\* the number of a cell read without its percent signs, 0 when there is none
PercentStripped(t) ==
    ExceptValueError(float(replace(strip(replace(t, "%", <<>>)), ",",
                                   <<".">>))).val

C14_PercentStripped ==
    \A a \in NumericCells : a[2] = PercentStripped(a[1])

(***************************************************************************)
(* C16 (as the spec has it): the file of the three-column layout, header   *)
(* ['MSCW', 'Weight %', 'Description', 12 provider columns], a row with a  *)
(* known category label in its description cell, the criterion row         *)
(* ['Must', '4.5', 'Some requirement text', '5', '3', ...], is extracted   *)
(* without error into one category of one criterion with weight 4.5 and    *)
(* the scores 5.0 and 3.0 for the first two providers.                     *)
(***************************************************************************)
\* the call is over
Ended == pc \in {"returned", "raised"}

OneCategoryOneCriterion ==
    /\ Len(categories) = 1
    /\ Len(heap[categories[1][2]].criteria) = 1
    /\ heap[categories[1][2]].criteria[1].weight = Num(45, 1)
    /\ DictHas(heap[categories[1][2]].criteria[1].scores, PROVIDERS[1])
    /\ DictGet(heap[categories[1][2]].criteria[1].scores, PROVIDERS[1])
           = Num(5, 0)
    /\ DictHas(heap[categories[1][2]].criteria[1].scores, PROVIDERS[2])
    /\ DictGet(heap[categories[1][2]].criteria[1].scores, PROVIDERS[2])
           = Num(3, 0)

C16_Original ==
    (rows = Layout3File /\ Ended) =>
        (pc = "returned" /\ OneCategoryOneCriterion)

(***************************************************************************)
(* C16 (amended): the file of the four-column layout, header ['MSCW', '',  *)
(* 'Weight %', 'Description', 12 provider columns], a row with a known     *)
(* category label in its first cell, the criterion row ['Must', name,      *)
(* '4.5', 'Some requirement text', '5', '3', ...], is extracted without    *)
(* error into one category of one criterion with weight 4.5 and the        *)
(* scores 5.0 and 3.0 for the first two providers.                         *)
(***************************************************************************)
ScenarioCriterion4(row) ==
    /\ Len(row) >= 6
    /\ row[1] = S_Must
    /\ row[3] = T_4p5
    /\ row[4] = T_text
    /\ row[5] = T_5
    /\ row[6] = T_3

Scenario4 ==
    /\ Len(rows) = 3
    /\ IsHeaderRow(rows[1])
    /\ RuleCategory(rows[2])
    /\ ScenarioCriterion4(rows[3])

C16_EndToEnd4 ==
    Scenario4 =>
        /\ pc # "raised"
        /\ pc = "returned" => OneCategoryOneCriterion

C16_Witness == pc = "returned" /\ Scenario4

(***************************************************************************)
(* C17 (as the spec has it): a row ['', '20%', '', '80%', '65%', ...],     *)
(* the percent weight in its second cell, read while a category is open,   *)
(* is recorded in that category's subtotals ('80%' for the first           *)
(* provider, '65%' for the second) and adds no criterion.                  *)
(***************************************************************************)
ScenarioSubtotal3(row) ==
    /\ Len(row) >= 5
    /\ row[1] = <<>>
    /\ row[2] = T_20pct
    /\ row[3] = <<>>
    /\ row[4] = T_80pct
    /\ row[5] = T_65pct

\* the step records '80%' and '65%' in the subtotals of the open category
\* and leaves every list of criteria as it is
RecordsSubtotal ==
    /\ Len(heap') = Len(heap)
    /\ DictHas(heap'[current_category].subtotals, PROVIDERS[1])
    /\ DictGet(heap'[current_category].subtotals, PROVIDERS[1]) = T_80pct
    /\ DictHas(heap'[current_category].subtotals, PROVIDERS[2])
    /\ DictGet(heap'[current_category].subtotals, PROVIDERS[2]) = T_65pct
    /\ ~ChangesCriteria

C17_Original ==
    [][(Scanning /\ current_category # NoRef /\ ScenarioSubtotal3(NewRow))
           => RecordsSubtotal]_vars

(***************************************************************************)
(* C17 (amended): a row ['', '', '20%', '', '80%', '65%', ...], the        *)
(* percent weight in its third cell and no cost range among its provider   *)
(* cells, read while a category is open, is recorded in that category's    *)
(* subtotals ('80%' for the first provider, '65%' for the second) and      *)
(* adds no criterion.                                                      *)
(***************************************************************************)
ScenarioSubtotal4(row) ==
    /\ Len(row) >= 6
    /\ strip(row[1]) = <<>>
    /\ row[3] = T_20pct
    /\ row[5] = T_80pct
    /\ row[6] = T_65pct
    /\ ~RuleTco(row)

C17_Subtotal4 ==
    [][(Scanning /\ current_category # NoRef /\ ScenarioSubtotal4(NewRow))
           => RecordsSubtotal]_vars

C17_Witness ==
    /\ pc = "returned"
    /\ \E p \in Scanned :
           /\ ScenarioSubtotal4(RowAt(p))
           /\ \E n \in 1..Len(categories) :
                  /\ heap[categories[n][2]].opened_at < p
                  /\ DictHas(heap[categories[n][2]].subtotals, PROVIDERS[1])
                  /\ DictGet(heap[categories[n][2]].subtotals, PROVIDERS[1])
                         = T_80pct

(***************************************************************************)
(* C18 (as the spec has it): a row ['', '100%', marker, '84.1%', ...], the *)
(* weight in its second cell, read after the header, puts '84.1%' in the   *)
(* final-score map for the first provider and adds no criterion.           *)
(***************************************************************************)
ScenarioFinal3(row) ==
    /\ Len(row) >= 4
    /\ row[1] = <<>>
    /\ row[2] = S_100pct
    /\ row[3] = S_Marker
    /\ row[4] = T_84pct

\* the step maps the first provider to '84.1%' and leaves every list of
\* criteria as it is
RecordsFinal ==
    /\ DictHas(final_scores', PROVIDERS[1])
    /\ DictGet(final_scores', PROVIDERS[1]) = T_84pct
    /\ Len(heap') = Len(heap)
    /\ ~ChangesCriteria

C18_Original == [][(Scanning /\ ScenarioFinal3(NewRow)) => RecordsFinal]_vars

(***************************************************************************)
(* C18 (amended): a row ['', '', '100%', marker, '84.1%', ...], the weight *)
(* in its third cell, read after the header, puts '84.1%' in the           *)
(* final-score map for the first provider and adds no criterion.           *)
(***************************************************************************)
ScenarioFinal4(row) ==
    /\ Len(row) >= 5
    /\ row[1] = <<>>
    /\ row[3] = S_100pct
    /\ row[4] = S_Marker
    /\ row[5] = T_84pct

C18_Final4 == [][(Scanning /\ ScenarioFinal4(NewRow)) => RecordsFinal]_vars

C18_Witness ==
    /\ pc = "returned"
    /\ \E p \in Scanned : ScenarioFinal4(RowAt(p))
    /\ DictHas(final_scores, PROVIDERS[1])
    /\ DictGet(final_scores, PROVIDERS[1]) = T_84pct
    /\ AllCriteria # {}

(***************************************************************************)
(* C19: a header row that is not found is the only fatal case of a run of  *)
(* main: when the file has the header row, whatever its cells hold, the    *)
(* run comes to the writing of the document without an exception.          *)
(***************************************************************************)
\* an exception ended the run before it came to write the document
StoppedBeforeWrite ==
    /\ pc = "raised"
    /\ exc.at \in {"parse_csv", "print_summary", "generate_html"}

C19_OnlyHeaderFatal == StoppedBeforeWrite => HeaderIdx(rows) = NoIdx

(***************************************************************************)
(* C20: index.html changes only when main writes it, and if it existed     *)
(* the backup then holds its content; the write, failed or not, leaves the *)
(* backup alone (a failed write is not rolled back: index.html stays as    *)
(* the failure left it); while there is no index.html the backup is not    *)
(* created or changed.                                                     *)
(***************************************************************************)
CopiedBeforeWrite ==
    html_file' # html_file =>
        /\ pc = "write_html"
        /\ html_file # Absent => backup_file = html_file

BackupSurvivesWrite ==
    pc = "write_html" =>
        /\ backup_file' = backup_file
        /\ (pc' = "raised" /\ html_file # Absent) =>
               /\ backup_file' = html_file
               /\ html_file' \in {html_file, Truncated}

NoBackupOfNothing == html_file = Absent => backup_file' = backup_file

C20_BackupBeforeWrite ==
    [][CopiedBeforeWrite /\ BackupSurvivesWrite /\ NoBackupOfNothing]_vars

\* the write failed on an index.html that existed: the backup has the old
\* content over the backup that was there, index.html is cut short
C20_Witness ==
    /\ pc = "raised"
    /\ exc = Raised("OSError", "write_html")
    /\ html_file = Truncated
    /\ backup_file = OldDoc

(***************************************************************************)
(* C21 (as the spec has it): every criterion holds a score for every known *)
(* provider; a provider whose cell the row is too short to have is         *)
(* recorded with the score 0.                                              *)
(***************************************************************************)
\* the row a criterion was built from
RowOf(c) == RowAt(c.src_row)

\* the providers by their position in PROVIDERS, from 0
ProviderIdx == 0..(Len(PROVIDERS) - 1)

C21_Original ==
    \A rn \in AllCriteria :
        \A j \in ProviderIdx : DictHas(CritOf(rn).scores, PROVIDERS[j + 1])

(***************************************************************************)
(* C21 (amended): a criterion holds a score for exactly the providers      *)
(* whose cell its row has; a provider whose cell the row is too short to   *)
(* have gets no entry, and reads as 0 where the scores are used.           *)
(***************************************************************************)
C21_MissingHasNoEntry ==
    \A rn \in AllCriteria :
        \A j \in ProviderIdx :
            /\ DictHas(CritOf(rn).scores, PROVIDERS[j + 1])
                   <=> Len(RowOf(CritOf(rn))) > j + 4
            /\ Len(RowOf(CritOf(rn))) <= j + 4
                   => ScoreOf(CritOf(rn), PROVIDERS[j + 1]) = Zero

\* a criterion of a row that has the cells of some providers only
C21_Witness ==
    /\ pc = "returned"
    /\ \E rn \in AllCriteria :
           /\ Len(RowOf(CritOf(rn))) > 4
           /\ Len(RowOf(CritOf(rn))) < 4 + Len(PROVIDERS)
           /\ Len(CritOf(rn).scores) = Len(RowOf(CritOf(rn))) - 4

(***************************************************************************)
(* C22: in grand-total, cost-range, subtotal and criterion rows the value  *)
(* of the provider at position j comes from the cell j + 4 and from no     *)
(* other; a row without that cell writes no entry for that provider and    *)
(* raises nothing; the cells behind the last provider are ignored.         *)
(***************************************************************************)
\* the step writes into dict d (d2 afterwards) the text of the cell j + 4 of
\* the row for the provider at j, and nothing when the row lacks the cell
WritesText(d, d2, row, j) ==
    IF Len(row) > j + 4
    THEN /\ DictHas(d2, PROVIDERS[j + 1])
         /\ DictGet(d2, PROVIDERS[j + 1]) = strip(row[j + 5])
    ELSE SameEntry(d, d2, PROVIDERS[j + 1])

\* the same for a cost-range row, which keeps only the cells that match
WritesCost(d, d2, row, j) ==
    IF Len(row) > j + 4 /\ re_match_tco(strip(row[j + 5]))
    THEN /\ DictHas(d2, PROVIDERS[j + 1])
         /\ DictGet(d2, PROVIDERS[j + 1]) = strip(row[j + 5])
    ELSE SameEntry(d, d2, PROVIDERS[j + 1])

\* the scores of a new criterion
WritesScore(scores, row, j) ==
    IF Len(row) > j + 4
    THEN /\ DictHas(scores, PROVIDERS[j + 1])
         /\ DictGet(scores, PROVIDERS[j + 1])
                = ParseScore(strip(row[j + 5])).val
    ELSE ~DictHas(scores, PROVIDERS[j + 1])

\* the keys of a dict are providers, each once
KeysAreProviders(d) ==
    /\ \A n \in 1..Len(d) : \E j \in ProviderIdx : d[n][1] = PROVIDERS[j + 1]
    /\ Len(d) <= Len(PROVIDERS)

LastOf(s) == s[Len(s)]

PositionalStep(row, rule) ==
    /\ pc' # "raised"
    /\ rule = 2 =>
           /\ \A j \in ProviderIdx :
                  WritesText(final_scores, final_scores', row, j)
           /\ KeysAreProviders(final_scores')
    /\ rule = 3 =>
           /\ \A j \in ProviderIdx :
                  WritesCost(tco_values, tco_values', row, j)
           /\ KeysAreProviders(tco_values')
    /\ (rule = 4 /\ current_category # NoRef) =>
           /\ \A j \in ProviderIdx :
                  WritesText(heap[current_category].subtotals,
                             heap'[current_category].subtotals, row, j)
           /\ KeysAreProviders(heap'[current_category].subtotals)
    /\ (rule = 5 /\ current_category # NoRef) =>
           /\ Len(heap'[current_category].criteria)
                  = Len(heap[current_category].criteria) + 1
           /\ \A j \in ProviderIdx :
                  WritesScore(LastOf(heap'[current_category].criteria).scores,
                              row, j)
           /\ KeysAreProviders(LastOf(heap'[current_category].criteria).scores)

C22_Positional ==
    [][Scanning => PositionalStep(NewRow, FirstRule(NewRow))]_vars

\* a row too short for the last provider was read, and a subtotal row with
\* a cell behind the last provider
C22_Witness ==
    /\ pc = "returned"
    /\ \E p \in Scanned :
           FirstRule(RowAt(p)) \in 2..5 /\ Len(RowAt(p)) < 4 + Len(PROVIDERS)
    /\ \E p \in Scanned :
           /\ FirstRule(RowAt(p)) = 4
           /\ OpenBefore(p)
           /\ Len(RowAt(p)) > 4 + Len(PROVIDERS)

(***************************************************************************)
(* C23: while no category header has been read, a row of the subtotal rule *)
(* and a row of the criterion rule leave the categories, the final scores  *)
(* and the costs as they are, and raise nothing.                           *)
(***************************************************************************)
C23_NoCategoryNoEffect ==
    [][(Scanning /\ current_category = NoRef /\ FirstRule(NewRow) \in {4, 5})
           => /\ pc' = "process_rows"
              /\ UNCHANGED <<heap, categories, current_category,
                             final_scores, tco_values>>]_vars

\* a subtotal row and a criterion row were read and no category was opened
C23_Witness ==
    /\ pc = "returned"
    /\ heap = <<>>
    /\ \E p \in Scanned : FirstRule(RowAt(p)) = 4
    /\ \E p \in Scanned : FirstRule(RowAt(p)) = 5

(***************************************************************************)
(* C24 (as the spec has it): a row whose label cell equals a key of        *)
(* CATEGORY_MAP is classified as a category header whatever its other      *)
(* cells hold; the category takes identity, name and weight from the       *)
(* lookup, so the keys of the category map are among the six identities    *)
(* and every category has the name and weight of the lookup.               *)
(***************************************************************************)
\* the step opens, for the row, a new category made from the lookup alone
OpensFromLookup(row) ==
    LET entry == DictGet(CATEGORY_MAP, row[1])
    IN  /\ Len(heap') = Len(heap) + 1
        /\ current_category' = Len(heap')
        /\ heap'[Len(heap')].name = entry[2]
        /\ heap'[Len(heap')].weight_percent = entry[3]
        /\ heap'[Len(heap')].criteria = <<>>
        /\ heap'[Len(heap')].subtotals = <<>>
        /\ DictHas(categories', entry[1])
        /\ DictGet(categories', entry[1]) = Len(heap')
        /\ UNCHANGED <<final_scores, tco_values>>

\* categories[n] is an identity of the lookup with that identity's values
FromLookup(n) ==
    \E k \in 1..Len(CATEGORY_MAP) :
        /\ categories[n][1] = CATEGORY_MAP[k][2][1]
        /\ heap[categories[n][2]].name = CATEGORY_MAP[k][2][2]
        /\ heap[categories[n][2]].weight_percent = CATEGORY_MAP[k][2][3]

LabelIsKey(row) == Len(row) >= 1 /\ DictHas(CATEGORY_MAP, row[1])

C24_Original ==
    /\ [](\A n \in 1..Len(categories) : FromLookup(n))
    /\ [][(Scanning /\ LabelIsKey(NewRow)) => OpensFromLookup(NewRow)]_vars

(***************************************************************************)
(* C24 (amended): the same of a row of at least four cells; a shorter row  *)
(* is skipped before its label cell is looked at.                          *)
(***************************************************************************)
C24_CategoryFromLookup ==
    /\ [](\A n \in 1..Len(categories) : FromLookup(n))
    /\ [][(Scanning /\ Len(NewRow) >= 4 /\ LabelIsKey(NewRow))
             => OpensFromLookup(NewRow)]_vars

\* a category was opened by a row that has the key as its label cell and,
\* behind it, the cells of a grand-total row and a cost range
C24_Witness ==
    \E p \in Scanned :
        /\ Len(RowAt(p)) >= 4
        /\ LabelIsKey(RowAt(p))
        /\ RuleFinal(RowAt(p))
        /\ RuleTco(RowAt(p))
        /\ \E r \in 1..Len(heap) : heap[r].opened_at = p

(***************************************************************************)
(* C25: a row after the header that matches none of the five rules leaves  *)
(* the categories with their criteria and subtotals, the current category, *)
(* the final scores and the costs as they are, and the loop goes on.       *)
(***************************************************************************)
\* the criterion rule asks for a current category as well
MatchesNoRule(row) ==
    \/ FirstRule(row) = 0
    \/ FirstRule(row) = 5 /\ current_category = NoRef

C25_UnmatchedRowSkipped ==
    [][(Scanning /\ MatchesNoRule(NewRow))
           => /\ pc' = "process_rows"
              /\ UNCHANGED <<heap, categories, current_category,
                             final_scores, tco_values>>]_vars

\* a row of four cells or more that matches no rule was read while a
\* category was open, and the rows after it were read as well
C25_Witness ==
    /\ pc = "returned"
    /\ \E p \in Scanned :
          /\ Len(RowAt(p)) >= 4
          /\ FirstRule(RowAt(p)) = 0
          /\ OpenBefore(p)
          /\ p + 1 \in Scanned

(***************************************************************************)
(* C26: only the rows after the first row with the header's signature are  *)
(* classified.  The rows up to and including that row leave no trace in    *)
(* the result, also when they satisfy a rule, and a later row with the     *)
(* signature is a row like any other: the rows after it are classified as  *)
(* before.                                                                 *)
(***************************************************************************)
HeaderSignature(row) ==
    Len(row) > 3 /\ row[1] = S_MSCW /\ row[3] = S_WeightPct

\* the rows that left their trace in the result
Effective ==
    {heap[r].opened_at : r \in 1..Len(heap)}
        \cup {CritOf(rn).src_row : rn \in AllCriteria}

C26_OnlyAfterFirstHeader ==
    IF header_row_idx = NoIdx
    THEN /\ \A p \in 0..(Len(rows) - 1) : ~HeaderSignature(RowAt(p))
         /\ heap = <<>> /\ categories = <<>>
         /\ final_scores = <<>> /\ tco_values = <<>>
    ELSE /\ HeaderSignature(RowAt(header_row_idx))
         /\ \A p \in 0..(header_row_idx - 1) : ~HeaderSignature(RowAt(p))
         /\ Effective \subseteq Scanned
         /\ final_scores # <<>> => \E p \in Scanned : FirstRule(RowAt(p)) = 2
         /\ tco_values # <<>> => \E p \in Scanned : FirstRule(RowAt(p)) = 3
         /\ \A p \in Scanned :
               /\ HeaderSignature(RowAt(p)) /\ FirstRule(RowAt(p)) = 0
                      => p \notin Effective
               /\ FirstRule(RowAt(p)) = 1 => p \in Effective
               /\ FirstRule(RowAt(p)) = 5 /\ OpenBefore(p) => p \in Effective

\* a criterion row came before the header; after it a category was opened,
\* the header row came again and the criterion row behind it was appended
C26_Witness ==
    /\ header_row_idx > 0
    /\ FirstRule(RowAt(header_row_idx - 1)) = 5
    /\ \E p \in Scanned :
          /\ HeaderSignature(RowAt(p))
          /\ OpenBefore(p)
          /\ p + 1 \in Effective
          /\ FirstRule(RowAt(p + 1)) = 5

(***************************************************************************)
(* C27: a row after the header with fewer than four cells changes nothing, *)
(* also when its first cell is a key of CATEGORY_MAP or a priority: no     *)
(* category is opened and the current category stays.                      *)
(***************************************************************************)
C27_ShortRowSkipped ==
    [][(Scanning /\ Len(NewRow) < 4)
           => /\ pc' = "process_rows"
              /\ UNCHANGED <<heap, categories, current_category,
                             final_scores, tco_values>>]_vars

\* while a category was open, a short row with the key of another category
\* and a short row with a priority were read
C27_Witness ==
    /\ \E p \in Scanned :
          /\ Len(RowAt(p)) < 4
          /\ DictHas(CATEGORY_MAP, strip(RowAt(p)[1]))
          /\ \E r \in 1..Len(heap) :
                /\ heap[r].opened_at < p
                /\ CatIdOf(RowAt(heap[r].opened_at)) # CatIdOf(RowAt(p))
    /\ \E p \in Scanned :
          /\ Len(RowAt(p)) < 4
          /\ strip(RowAt(p)[1]) \in Priorities
          /\ OpenBefore(p)

(***************************************************************************)
(* C28: current_category is None or the very Category stored in the        *)
(* category map under its identity, so a subtotal or a criterion is only   *)
(* ever written to a Category of the map, never to one that was replaced.  *)
(***************************************************************************)
\* the Category at reference r is the one the map holds under its identity
Stored(cats, r) ==
    /\ DictHas(cats, CatIdOf(RowAt(heap[r].opened_at)))
    /\ DictGet(cats, CatIdOf(RowAt(heap[r].opened_at))) = r

C28_CurrentIsStored ==
    /\ [](current_category # NoRef => Stored(categories, current_category))
    /\ [][\A r \in 1..Len(heap) :
             (\/ heap'[r].criteria # heap[r].criteria
              \/ heap'[r].subtotals # heap[r].subtotals)
                 => r = current_category /\ Stored(categories', r)]_vars

\* a Category was replaced in the map, and after that a criterion was
\* appended to the current one
C28_Witness ==
    /\ current_category # NoRef
    /\ \E r \in 1..Len(heap) : ~Stored(categories, r)
    /\ current_category = Len(heap)
    /\ heap[current_category].criteria # <<>>

(***************************************************************************)
(* C29: when parse_csv fails because no row has the header's signature,    *)
(* main ends there: index.html and index_backup.html are neither created   *)
(* nor changed in that run.                                                *)
(***************************************************************************)
NoHeaderIn(file) == \A n \in 1..Len(file) : ~HeaderSignature(file[n])

HeaderMissing == exc = Raised("ValueError", "parse_csv")

C29_NoOutputWithoutHeader ==
    [][/\ (pc = "main" /\ NoHeaderIn(rows'))
            => /\ HeaderMissing'
               /\ pc' = "raised"
               /\ UNCHANGED <<html_content, html_file, backup_file>>
       /\ ~HeaderMissing]_vars

\* main ended on a file of rows without the header while index.html was
\* there and index_backup.html was not
C29_Witness ==
    /\ HeaderMissing
    /\ pc = "raised"
    /\ Len(rows) >= 2
    /\ \E n \in 1..Len(rows) : RuleCategory(rows[n])
    /\ html_file = OldDoc
    /\ backup_file = Absent

(***************************************************************************)
(* C30: generate_html gives every provider one card, with the ranks 1 to   *)
(* 12 in the order of the cards; the cards are in non-increasing order of  *)
(* the final score as a number, a provider without a final score or with   *)
(* one that cannot be parsed counting as 0, and providers with equal       *)
(* scores stand in the order of PROVIDERS.                                 *)
(***************************************************************************)
\* the final score of a provider as a number
NumericScore(p) == parse_score(Get(final_scores, p, S_Zero))

ProviderPos(p) == CHOOSE j \in 1..Len(PROVIDERS) : PROVIDERS[j] = p

RankedCards(cards) ==
    /\ Len(cards) = Len(PROVIDERS)
    /\ \A n \in 1..Len(cards) : cards[n].rank = n
    /\ \A j \in 1..Len(PROVIDERS) :
          Cardinality({n \in 1..Len(cards) :
                          cards[n].provider = PROVIDERS[j]}) = 1
    /\ \A i, j \in 1..Len(cards) :
          i < j =>
             /\ ~FloatLt(NumericScore(cards[i].provider),
                         NumericScore(cards[j].provider))
             /\ NumericScore(cards[i].provider)
                    = NumericScore(cards[j].provider)
                  => ProviderPos(cards[i].provider)
                         < ProviderPos(cards[j].provider)

C30_RankedByScore ==
    html_content.kind = "generated" => RankedCards(html_content.provider_cards)

\* the same where no final score reads as nan: this much the code does
C30_RankedWithoutNan ==
    (/\ html_content.kind = "generated"
     /\ \A j \in 1..Len(PROVIDERS) : NumericScore(PROVIDERS[j]).kind # "nan")
        => RankedCards(html_content.provider_cards)
=============================================================================
